---- MODULE Spec2Model ----
(***************************************************************************)
(* Model of the MongoConnector of dsavidge02/mongo-connector: the          *)
(* connection life cycle (connect / close / setDB), the retry executor     *)
(* withRetry, and the CRUD, bulk and index operations, run against an      *)
(* abstract document store.                                                *)
(***************************************************************************)
EXTENDS Integers, Sequences, FiniteSets, TLC

VARIABLES
    conn,       \* the connector's fields: client, db, connected
    clients,    \* every MongoClient created so far: its status
    store,      \* per database: documents and indexes of the collection
    last,       \* the call that completed last: operation, inputs, outcome
    retry,      \* the withRetry call that completed last: inputs and outcome
    registry,   \* MongoConnector.instance and every MongoConnector constructed
    tasks       \* the asynchronous calls started so far: where each one stands

vars == <<conn, clients, store, last, retry, registry, tasks>>

----------------------------------------------------------------------------
(* Bounds of the model *)

MaxAttemptsBound == 3   \* largest maxAttempts / number of scripted attempts
MaxClients == 4         \* MongoClient objects created in one behaviour
MaxIds == 2             \* ObjectIds the store generates in one behaviour
MaxBatch == 2           \* longest document list handed to createMany
MaxRuns == 2            \* runs of equal characters in an identifier string
MaxInstances == 3       \* MongoConnector objects constructed in one behaviour
MaxCalls == 2           \* asynchronous calls started in one behaviour

----------------------------------------------------------------------------
(* Values *)

NoClient == 0                       \* this.client === null

ValidDbNames == {"test-db", "custom-db"}
InvalidDbName == "bad.name"         \* client.db() throws on a '.' in the name
Collections == {"users"}

ObjectIdOf(n) == [t |-> "oid", v |-> n]     \* a native ObjectId

\* JavaScript truthiness of an identifier value
Truthy(x) ==
    CASE x.t = "undef" -> FALSE
      [] x.t = "oid" -> TRUE
      [] x.t = "str" -> x.v # 0
      [] x.t = "num" -> x.v # 0

NoError == [kind |-> "none", message |-> <<>>, uri |-> "", field |-> "", value |-> ""]

\* new Error(message)
Error(message) ==
    [kind |-> "Error", message |-> message, uri |-> "", field |-> "", value |-> ""]

\* evaluating (undefined).message
TypeError ==
    [kind |-> "TypeError", message |-> <<"Cannot read properties of undefined">>,
     uri |-> "", field |-> "", value |-> ""]

\* an error raised by the driver or the store, passed on unchanged
DriverError(code, message) ==
    [kind |-> "DriverError", message |-> message, uri |-> "", field |-> "", value |-> code]

ConnectionError(message, uri) ==
    [kind |-> "ConnectionError", message |-> message, uri |-> uri, field |-> "", value |-> ""]

ValidationError(message, field) ==
    [kind |-> "ValidationError", message |-> message, uri |-> "", field |-> field, value |-> ""]

DuplicateKeyError(collection, field, value) ==
    [kind |-> "DuplicateKeyError",
     message |-> <<"Duplicate value for unique field ", field, " in collection ", collection>>,
     uri |-> "", field |-> field, value |-> value]

\* what a call that returns nothing (Promise<void>) gives
Void == [kind |-> "undefined"]

\* the text m occurs in the message
Contains(message, m) == \E i \in 1..Len(message) : message[i] = m

----------------------------------------------------------------------------
(* Retry policy: withRetry *)

DEFAULT_RETRY_OPTIONS == [maxAttempts |-> 3, baseDelayMs |-> 100, maxDelayMs |-> 5000]

\* { ...DEFAULT_RETRY_OPTIONS, ...options }
mergeOptions(options) ==
    [k \in DOMAIN DEFAULT_RETRY_OPTIONS |->
        IF k \in DOMAIN options THEN options[k] ELSE DEFAULT_RETRY_OPTIONS[k]]

Min(a, b) == IF a <= b THEN a ELSE b

\* Math.min(opts.baseDelayMs * Math.pow(2, attempt - 1), opts.maxDelayMs)
delayWrongExponent(opts, attempt) ==
    Min(opts.baseDelayMs * (2 ^ attempt), opts.maxDelayMs)

delay(opts, attempt) ==
    Min(opts.baseDelayMs * (2 ^ (attempt - 1)), opts.maxDelayMs)

\* An attempt of fn is scripted: outcomes[k] is what the k-th invocation does,
\* [ok |-> TRUE, val |-> its result] or [ok |-> FALSE, val |-> the error's message].
\* The run is a record: the events in order (an invocation or a sleep), the
\* status and what was returned or raised.
CallEv(k) == [ev |-> "call", n |-> k]
SleepEv(d) == [ev |-> "sleep", n |-> d]
NoValue == "undefined"

\* the loop of withRetry from the given attempt on
RECURSIVE retryLoop(_, _, _, _, _)
retryLoop(attempt, lastError, trace, outcomes, opts) ==
    IF attempt <= opts.maxAttempts
    THEN LET tr == Append(trace, CallEv(attempt)) IN
         IF outcomes[attempt].ok
         THEN [status |-> "returned", value |-> outcomes[attempt].val,
               error |-> NoValue, trace |-> tr]
         ELSE LET err == outcomes[attempt].val IN
              IF attempt = opts.maxAttempts
              THEN [status |-> "raised", value |-> NoValue, error |-> err, trace |-> tr]
              ELSE retryLoop(attempt + 1, err,
                             Append(tr, SleepEv(delay(opts, attempt))), outcomes, opts)
    ELSE [status |-> "raised", value |-> NoValue, error |-> lastError, trace |-> trace]

withRetryStopsEarly(outcomes, options) ==
    LET opts == mergeOptions(options) IN
    retryLoop(1, NoValue, <<>>, outcomes, [opts EXCEPT !.maxAttempts = @ - 1])

withRetry(outcomes, options) ==
    retryLoop(1, NoValue, <<>>, outcomes, mergeOptions(options))

\* the invocations and the sleeps of a run
Calls(run) == SelectSeq(run.trace, LAMBDA e : e.ev = "call")
Sleeps(run) == SelectSeq(run.trace, LAMBDA e : e.ev = "sleep")

----------------------------------------------------------------------------
(* Connector: connection life cycle *)

\* this.db === null
NoDbHandle == [client |-> NoClient, name |-> "null"]

\* the fields of a freshly constructed MongoConnector
NewConnector == [client |-> NoClient, db |-> NoDbHandle, connected |-> FALSE]

isConnected(c) == c.connected /\ c.client # NoClient

\* the outcome of a handler: the connector and the clients after it, what it
\* returned or raised, and the I/O calls it issued, in order
Outcome(c, cl, status, error, value, io) ==
    [conn |-> c, clients |-> cl, status |-> status, error |-> error,
     value |-> value, io |-> io]

closeKeepsDb(c, cl) ==
    IF c.client # NoClient
    THEN Outcome([c EXCEPT !.client = NoClient, !.connected = FALSE],
                 [cl EXCEPT ![c.client] = "closed"],
                 "returned", NoError, Void, <<"client.close">>)
    ELSE Outcome(c, cl, "returned", NoError, Void, <<>>)

close(c, cl) ==
    IF c.client # NoClient
    THEN Outcome(NewConnector, [cl EXCEPT ![c.client] = "closed"],
                 "returned", NoError, Void, <<"client.close">>)
    ELSE Outcome(c, cl, "returned", NoError, Void, <<>>)

\* the error assertConnected throws, NoError when it returns
assertConnectedGeneric(c) ==
    IF ~isConnected(c)
    THEN Error(<<"MongoClient is not connected. Call connect() first.">>)
    ELSE NoError

assertConnected(c) ==
    IF ~isConnected(c)
    THEN ConnectionError(<<"MongoClient is not connected. Call connect() first.">>, "")
    ELSE NoError

\* MongoClient.db(dbName): the driver rejects a name with a '.' in it
DbNameError ==
    DriverError("MongoInvalidArgumentError",
                <<"Database names cannot contain the character '.'">>)

setDBUnguarded(c, cl, dbName) ==
    IF dbName = InvalidDbName
    THEN Outcome(c, cl, "raised", DbNameError, Void, <<>>)
    ELSE Outcome([c EXCEPT !.db = [client |-> c.client, name |-> dbName]], cl,
                 "returned", NoError, Void, <<>>)

setDBKeepsDatabase(c, cl, dbName) ==
    IF assertConnected(c) # NoError
    THEN Outcome(c, cl, "raised", assertConnected(c), Void, <<>>)
    ELSE IF dbName = InvalidDbName
    THEN Outcome(c, cl, "raised", DbNameError, Void, <<>>)
    ELSE Outcome(IF c.db = NoDbHandle
                 THEN [c EXCEPT !.db = [client |-> c.client, name |-> dbName]] ELSE c,
                 cl, "returned", NoError, Void, <<>>)

setDB(c, cl, dbName) ==
    IF assertConnected(c) # NoError
    THEN Outcome(c, cl, "raised", assertConnected(c), Void, <<>>)
    ELSE IF dbName = InvalidDbName
    THEN Outcome(c, cl, "raised", DbNameError, Void, <<>>)
    ELSE Outcome([c EXCEPT !.db = [client |-> c.client, name |-> dbName]], cl,
                 "returned", NoError, Void, <<>>)

\* getDB(): the selected database, or the error it throws when there is none
getDB(c) ==
    IF c.db = NoDbHandle
    THEN [status |-> "raised", value |-> NoDbHandle,
          error |-> Error(<<"ERROR: Database not selected. Call setDB() first.">>)]
    ELSE [status |-> "returned", value |-> c.db, error |-> NoError]

\* options.retry of a ConnectOptions value; withRetry defaults it to {}
NoOptions == [k \in {} |-> 0]
retryOf(options) == IF "retry" \in DOMAIN options THEN options.retry ELSE NoOptions

NoDbName == ""      \* dbName omitted (or empty): not selected by connect

\* the clients after the attempts of a run: every invocation creates a
\* MongoClient, open when its connect() resolved and failed otherwise
clientsAfter(cl, outcomes, run) ==
    cl \o [k \in 1..Len(Calls(run)) |-> IF outcomes[k].ok THEN "open" ELSE "failed"]

\* the value withRetry throws when it made no attempt
Undef == Error(<<NoValue>>)

\* the catch block of connect: the connector after it and the error it
\* throws; reading err.message of an undefined err is a TypeError
connectFailedKeepsClient(c, err, mongoUri) ==
    [conn |-> [c EXCEPT !.connected = FALSE],
     error |-> IF err = Undef THEN TypeError
               ELSE ConnectionError(<<"Failed to connect to MongoDB after retries: ",
                                      err.message[1]>>, mongoUri)]

connectFailed(c, err, mongoUri) ==
    [conn |-> [c EXCEPT !.client = NoClient, !.connected = FALSE],
     error |-> IF err = Undef THEN TypeError
               ELSE ConnectionError(<<"Failed to connect to MongoDB after retries: ",
                                      err.message[1]>>, mongoUri)]

\* connect: outcomes scripts the connection attempts
connect(c, cl, mongoUri, dbName, options, outcomes) ==
    LET closed == close(c, cl)                                      \* await this.close()
        run == withRetry(outcomes, retryOf(options))
        cl2 == clientsAfter(closed.clients, outcomes, run)
        \* this.client = new MongoClient(mongoUri), once per invocation
        c2 == IF Len(cl2) > Len(closed.clients)
              THEN [closed.conn EXCEPT !.client = Len(cl2)] ELSE closed.conn
        c3 == [c2 EXCEPT !.connected = TRUE]
        sel == setDB(c3, cl2, dbName)
        caught(cc, err) ==
            Outcome(connectFailed(cc, err, mongoUri).conn, cl2, "raised",
                    connectFailed(cc, err, mongoUri).error, run, closed.io)
    IN  IF run.status = "raised" THEN caught(c2, Error(<<run.error>>))
        ELSE IF dbName = NoDbName
        THEN Outcome(c3, cl2, "returned", NoError, run, closed.io)
        ELSE IF sel.status = "raised" THEN caught(c3, sel.error)
        ELSE Outcome(sel.conn, cl2, "returned", NoError, run, closed.io)

----------------------------------------------------------------------------
(* The singleton and the test connectors.  A registry is the static field    *)
(* MongoConnector.instance, a position in objects or NoInstance, and the     *)
(* MongoConnector objects constructed so far; a call gives the registry      *)
(* after it and the object it returns.                                       *)

NoInstance == 0                     \* MongoConnector.instance is undefined

\* the module once loaded: export const mongoConnector = MongoConnector.getInstance()
Loaded == [instance |-> 1, objects |-> <<NewConnector>>]

\* new MongoConnector()
construct(reg) == [reg EXCEPT !.objects = Append(@, NewConnector)]

getInstanceFresh(reg) ==
    [registry |-> [construct(reg) EXCEPT !.instance = Len(reg.objects) + 1],
     value |-> Len(reg.objects) + 1]

getInstance(reg) ==
    IF reg.instance = NoInstance
    THEN [registry |-> [construct(reg) EXCEPT !.instance = Len(reg.objects) + 1],
          value |-> Len(reg.objects) + 1]
    ELSE [registry |-> reg, value |-> reg.instance]

\* (MongoConnector as any).instance = undefined
resetMongoConnector(reg) == [reg EXCEPT !.instance = NoInstance]

\* (MongoConnector as any).createInstance()
createTestConnector(reg) ==
    [registry |-> construct(reg), value |-> Len(reg.objects) + 1]

\* the fields client, db and connected belong to the object a method is
\* called on: the registry after a call on object o has left it as c
withFieldsShared(reg, o, c) == [reg EXCEPT !.objects = [i \in DOMAIN @ |-> c]]

withFields(reg, o, c) == [reg EXCEPT !.objects[o] = c]

----------------------------------------------------------------------------
(* The document store behind the driver.  A collection is its documents in   *)
(* insertion order and its indexes; positions in a batch are counted from 1. *)

\* values returned by the operations
Null == [kind |-> "null"]
DocValue(d) == [kind |-> "doc", doc |-> d]
ListValue(ds) == [kind |-> "list", docs |-> ds]
NumValue(n) == [kind |-> "number", n |-> n]
BoolValue(b) == [kind |-> "boolean", b |-> b]
NameValue(str) == [kind |-> "string", str |-> str]

EmptyStore ==
    [ids |-> 0,
     dbs |-> [d \in ValidDbNames |-> [exists |-> FALSE, docs |-> <<>>, indexes |-> {}]]]

\* the outcome of an operation on the store
DataOutcome(st, status, error, value, io) ==
    [store |-> st, status |-> status, error |-> error, value |-> value, io |-> io]

Range(seq) == {seq[i] : i \in 1..Len(seq)}

\* { ...doc, _id: id }
withId(doc, id) ==
    [k \in DOMAIN doc \cup {"_id"} |-> IF k = "_id" THEN id ELSE doc[k]]

\* a filter matches a document when every field it names has the same value
Matches(doc, filter) == \A k \in DOMAIN filter : k \in DOMAIN doc /\ doc[k] = filter[k]

MatchingDocs(coll, filter) == SelectSeq(coll.docs, LAMBDA d : Matches(d, filter))

\* the index the store keeps on _id, and index names as the store builds them
IdIndex == [key |-> <<"_id">>, unique |-> TRUE, name |-> "_id_"]
IndexName(key) ==
    CASE key = <<"name">> -> "name_1"
      [] key = <<"_id">> -> "_id_1"
      [] key = <<"name", "_id">> -> "name_1__id_1"
      [] key = <<"_id", "name">> -> "_id_1_name_1"

KeyOf(doc, key) == [i \in 1..Len(key) |-> doc[key[i]]]

\* the unique indexes that inserting doc would violate
ViolatedBy(coll, doc, others) ==
    {ix \in coll.indexes \cup {IdIndex} :
        /\ ix.unique
        /\ \E e \in others : KeyOf(e, ix.key) = KeyOf(doc, ix.key)}

FirstViolated(coll, doc, others) ==
    LET v == ViolatedBy(coll, doc, others) IN
    IF IdIndex \in v THEN IdIndex ELSE CHOOSE ix \in v : TRUE

\* the store's E11000 error for a document and the index it violates:
\* "E11000 duplicate key error collection: <ns> index: <name> dup key: { <field>: <value> }"
DupKeyCode == "11000"
IdText(id) ==
    CASE id.t = "oid" -> "ObjectId(" \o ToString(id.v) \o ")"
      [] id.t = "num" -> ToString(id.v)
      [] id.t = "str" -> "str" \o ToString(id.v)
      [] id.t = "undef" -> "undefined"
FieldText(doc, field) == IF field = "_id" THEN IdText(doc._id) ELSE doc[field]
DupKeyMessage(ns, ix, doc) ==
    <<"E11000 duplicate key error collection: ", ns, " index: ", ix.name,
      " dup key: { ", ix.key[1], ": ", FieldText(doc, ix.key[1]), " }">>

WriteError(pos, code, message) == [index |-> pos, code |-> code, errmsg |-> message]

\* the driver gives every document without an _id a new ObjectId before sending
hasId(doc) == "_id" \in DOMAIN doc
Prepared(documents, ids) ==
    [i \in 1..Len(documents) |->
        IF hasId(documents[i]) THEN documents[i]
        ELSE withId(documents[i],
                    ObjectIdOf(ids + Cardinality({j \in 1..i : ~hasId(documents[j])})))]
NewIds(documents) == Cardinality({j \in 1..Len(documents) : ~hasId(documents[j])})

\* an unordered insert: every document is tried in turn; one that the
\* collection's validator rejects, or that violates a unique index, is
\* reported as a write error and the others are inserted
RECURSIVE insertFrom(_, _, _, _, _, _)
insertFrom(pos, prepared, rejected, ns, coll, errs) ==
    IF pos > Len(prepared) THEN [coll |-> coll, writeErrors |-> errs]
    ELSE IF pos \in rejected
    THEN insertFrom(pos + 1, prepared, rejected, ns, coll,
                    Append(errs, WriteError(pos, "121",
                                            <<"Document failed validation">>)))
    ELSE IF ViolatedBy(coll, prepared[pos], Range(coll.docs)) # {}
    THEN insertFrom(pos + 1, prepared, rejected, ns, coll,
                    Append(errs, WriteError(pos, DupKeyCode,
                        DupKeyMessage(ns, FirstViolated(coll, prepared[pos], Range(coll.docs)),
                                      prepared[pos]))))
    ELSE insertFrom(pos + 1, prepared, rejected, ns,
                    [coll EXCEPT !.docs = Append(@, prepared[pos]), !.exists = TRUE], errs)

\* Collection.insertMany(documents, { ordered: false }): the collection after
\* it and either the InsertManyResult or the MongoBulkWriteError, whose code
\* is that of its first write error
insertMany(coll, ns, documents, ids, rejected) ==
    LET prepared == Prepared(documents, ids)
        r == insertFrom(1, prepared, rejected, ns, coll, <<>>)
        failedAt == {r.writeErrors[i].index : i \in 1..Len(r.writeErrors)}
        insertedIds == [i \in (1..Len(documents)) \ failedAt |-> prepared[i]._id]
    IN  IF r.writeErrors = <<>>
        THEN [coll |-> r.coll, ok |-> TRUE, insertedIds |-> insertedIds,
              code |-> "", writeErrors |-> <<>>, message |-> <<>>]
        ELSE [coll |-> r.coll, ok |-> FALSE, insertedIds |-> insertedIds,
              code |-> r.writeErrors[1].code, writeErrors |-> r.writeErrors,
              message |-> r.writeErrors[1].errmsg]

\* a failure of the call as a whole (the server cannot be reached)
NetworkError == DriverError("", <<"connection to the server was lost">>)

----------------------------------------------------------------------------
(* Connector: CRUD operations.  Each takes the connector, the store, its      *)
(* arguments and the store's response, and gives a DataOutcome.               *)

hasDb(c) == c.db # NoDbHandle

\* the preamble of an operation: this.assertConnected(), then
\* if (!this.db) throw new ConnectionError(...); NoError when the call may proceed
requireDb(c) ==
    IF assertConnected(c) # NoError THEN assertConnected(c)
    ELSE IF ~hasDb(c) THEN ConnectionError(<<"Database not selected. Call setDB() first.">>, "")
    ELSE NoError

\* the collection behind getCollection(collectionName) and its namespace
collOf(st, c) == st.dbs[c.db.name]
nsOf(c, collectionName) == c.db.name \o "." \o collectionName
putColl(st, c, coll) == [st EXCEPT !.dbs[c.db.name] = coll]

Raised(st, error, io) == DataOutcome(st, "raised", error, Void, io)
Ok(st, value, io) == DataOutcome(st, "returned", NoError, value, io)

\* new ObjectId(str) accepts a 24 hex character string only
isHex24(x) == x.t = "str" /\ x.v >= 1
isString(x) == x.t = "str"
toNative(x) == ObjectIdOf(x.v)

CouldNotFind == Error(<<"ERROR: Could not find document.">>)

getOne(c, st, collectionName, query, fail) ==
    LET normalize == "_id" \in DOMAIN query /\ Truthy(query._id) /\ isString(query._id)
        normQuery == IF normalize THEN withId(query, toNative(query._id)) ELSE query
        found == MatchingDocs(collOf(st, c), normQuery)
    IN  IF normalize /\ ~isHex24(query._id) THEN Raised(st, CouldNotFind, <<>>)
        ELSE IF ~hasDb(c) THEN Raised(st, CouldNotFind, <<>>)
        ELSE IF fail THEN Raised(st, CouldNotFind, <<"findOne">>)
        ELSE Ok(st, IF found = <<>> THEN Null ELSE DocValue(found[1]), <<"findOne">>)

\* cursor.sort({ name: 1 | -1 })
RECURSIVE sortByName(_, _)
sortByName(docs, dir) ==
    IF docs = <<>> THEN <<>>
    ELSE LET first == CHOOSE i \in 1..Len(docs) :
                        \A j \in 1..Len(docs) :
                            \/ docs[i].name = docs[j].name /\ i <= j
                            \/ (dir = 1 /\ docs[i].name = "Alice" /\ docs[j].name = "Bob")
                            \/ (dir = -1 /\ docs[i].name = "Bob" /\ docs[j].name = "Alice")
         IN <<docs[first]>> \o
            sortByName(SubSeq(docs, 1, first - 1) \o SubSeq(docs, first + 1, Len(docs)), dir)

getMany(c, st, collectionName, filter, options, fail) ==
    LET entry == requireDb(c)
        found == MatchingDocs(collOf(st, c), filter)
        sorted == IF "sort" \in DOMAIN options THEN sortByName(found, options.sort) ELSE found
        \* cursor.skip(n), cursor.limit(n): a limit of 0 is no limit
        skipped == IF "skip" \in DOMAIN options
                   THEN SubSeq(sorted, options.skip + 1, Len(sorted)) ELSE sorted
        limited == IF "limit" \in DOMAIN options /\ options.limit # 0
                   THEN SubSeq(skipped, 1, Min(options.limit, Len(skipped)))
                   ELSE skipped
    IN  IF entry # NoError THEN Raised(st, entry, <<>>)
        ELSE IF fail THEN Raised(st, NetworkError, <<"find">>)
        ELSE Ok(st, ListValue(limited), <<"find">>)

count(c, st, collectionName, filter, fail) ==
    LET entry == requireDb(c) IN
    IF entry # NoError THEN Raised(st, entry, <<>>)
    ELSE IF fail THEN Raised(st, NetworkError, <<"countDocuments">>)
    ELSE Ok(st, NumValue(Len(MatchingDocs(collOf(st, c), filter))), <<"countDocuments">>)

exists(c, st, collectionName, filter, fail) ==
    LET entry == requireDb(c) IN
    IF entry # NoError THEN Raised(st, entry, <<>>)
    ELSE IF fail THEN Raised(st, NetworkError, <<"findOne">>)
    ELSE Ok(st, BoolValue(MatchingDocs(collOf(st, c), filter) # <<>>), <<"findOne">>)

\* message.match(/index: (\w+)_/)?.[1]: the index name up to its last '_'
FieldOfIndexName(name) ==
    CASE name = "_id_" -> "_id"
      [] name = "name_1" -> "name"
      [] name = "_id_1" -> "_id"
      [] name = "name_1__id_1" -> "name_1__id"
      [] name = "_id_1_name_1" -> "_id_1_name"
      [] OTHER -> "unknown"

parseDuplicateKeyErrorUnparsed(err, collectionName) ==
    IF err.kind = "DriverError" /\ err.value = DupKeyCode
    THEN DuplicateKeyError(collectionName, "unknown", "unknown")
    ELSE NoError

\* the error has code 11000: DuplicateKeyError with the field and value parsed
\* from its message; any other error: null (NoError here)
parseDuplicateKeyError(err, collectionName) ==
    IF err.kind = "DriverError" /\ err.value = DupKeyCode
    THEN DuplicateKeyError(collectionName,
                           IF Len(err.message) >= 4 THEN FieldOfIndexName(err.message[4])
                           ELSE "unknown",
                           IF Len(err.message) >= 8 THEN err.message[8] ELSE "unknown")
    ELSE NoError

\* resp: "ok", "fail" (the call fails as a whole), "unack" (the write is not
\* acknowledged), "reject" (the collection's validator rejects the document)
createOne(c, st, collectionName, newObj, resp) ==
    LET entry == requireDb(c)
        r == insertMany(collOf(st, c), nsOf(c, collectionName), <<newObj>>, st.ids,
                        IF resp = "reject" THEN {1} ELSE {})
        st2 == [putColl(st, c, r.coll) EXCEPT !.ids = @ + NewIds(<<newObj>>)]
        err == IF resp = "fail" THEN NetworkError ELSE DriverError(r.code, r.message)
        duplicateError == parseDuplicateKeyError(err, collectionName)
    IN  IF entry # NoError THEN Raised(st, entry, <<>>)
        ELSE IF resp = "fail" THEN Raised(st, NetworkError, <<"insertOne">>)
        ELSE IF ~r.ok
        THEN Raised(st2, IF duplicateError # NoError THEN duplicateError ELSE err,
                    <<"insertOne">>)
        ELSE IF resp = "unack"
        THEN Raised(st2, Error(<<"Insert was not acknowledged by MongoDB">>), <<"insertOne">>)
        ELSE Ok(st2, DocValue(withId(newObj, r.insertedIds[1])), <<"insertOne">>)

\* obj._id, undefined when the field is missing
idOf(obj) == IF "_id" \in DOMAIN obj THEN obj._id ELSE [t |-> "undef", v |-> 0]

\* const { _id, ...otherFields } = updateObj
otherFields(obj) == [k \in DOMAIN obj \ {"_id"} |-> obj[k]]

\* { ...doc, ...fields }
merged(doc, fields) ==
    [k \in DOMAIN doc \cup DOMAIN fields |-> IF k \in DOMAIN fields THEN fields[k] ELSE doc[k]]

\* the position of the first document matching the filter, 0 when none does
FirstMatch(coll, filter) ==
    IF \E i \in 1..Len(coll.docs) : Matches(coll.docs[i], filter)
    THEN CHOOSE i \in 1..Len(coll.docs) :
            /\ Matches(coll.docs[i], filter)
            /\ \A j \in 1..(i - 1) : ~Matches(coll.docs[j], filter)
    ELSE 0

OthersAt(coll, pos) == {coll.docs[j] : j \in (1..Len(coll.docs)) \ {pos}}

UnableToUpdate == Error(<<"ERROR: Unable to update document.">>)

updateOne(c, st, collectionName, updateObj, fail) ==
    LET id == idOf(updateObj)
        query == [_id |-> IF isString(id) THEN toNative(id) ELSE id]
        coll == collOf(st, c)
        pos == FirstMatch(coll, query)
        after == merged(coll.docs[pos], otherFields(updateObj))
        st2 == putColl(st, c, [coll EXCEPT !.docs[pos] = after])
    IN  IF ~Truthy(id) THEN Raised(st, UnableToUpdate, <<>>)
        ELSE IF isString(id) /\ ~isHex24(id) THEN Raised(st, UnableToUpdate, <<>>)
        ELSE IF ~hasDb(c) THEN Raised(st, UnableToUpdate, <<>>)
        ELSE IF fail THEN Raised(st, UnableToUpdate, <<"findOneAndUpdate">>)
        ELSE IF pos = 0 THEN Raised(st, UnableToUpdate, <<"findOneAndUpdate">>)
        ELSE IF ViolatedBy(coll, after, OthersAt(coll, pos)) # {}
        THEN Raised(st, UnableToUpdate, <<"findOneAndUpdate">>)
        ELSE IF ~Truthy(after._id) THEN Raised(st2, UnableToUpdate, <<"findOneAndUpdate">>)
        ELSE Ok(st2, DocValue(after), <<"findOneAndUpdate">>)

UnableToDelete == Error(<<"ERROR: Unable to delete document.">>)

deleteOne(c, st, collectionName, deleteObj, fail) ==
    LET id == idOf(deleteObj)
        query == [_id |-> IF isString(id) THEN toNative(id) ELSE id]
        coll == collOf(st, c)
        pos == FirstMatch(coll, query)
        st2 == putColl(st, c, [coll EXCEPT !.docs = SubSeq(@, 1, pos - 1)
                                                    \o SubSeq(@, pos + 1, Len(@))])
    IN  IF ~Truthy(id) THEN Raised(st, UnableToDelete, <<>>)
        ELSE IF isString(id) /\ ~isHex24(id) THEN Raised(st, UnableToDelete, <<>>)
        ELSE IF ~hasDb(c) THEN Raised(st, UnableToDelete, <<>>)
        ELSE IF fail THEN Raised(st, UnableToDelete, <<"deleteOne">>)
        ELSE IF pos = 0 THEN Raised(st, UnableToDelete, <<"deleteOne">>)
        ELSE Ok(st2, BoolValue(TRUE), <<"deleteOne">>)

----------------------------------------------------------------------------
(* Connector: index management *)

NamespaceNotFound == DriverError("26", <<"ns does not exist">>)

HasDuplicates(coll, key) ==
    \E i, j \in 1..Len(coll.docs) :
        i # j /\ KeyOf(coll.docs[i], key) = KeyOf(coll.docs[j], key)

\* Collection.createIndex(indexSpec, options): the collection after it and
\* the index name, or the store's error
createIndex(coll, ns, key, options) ==
    LET unique == "unique" \in DOMAIN options /\ options.unique
        ix == [key |-> key, unique |-> unique, name |-> IndexName(key)]
        same == {e \in coll.indexes : e.key = key}
    IN  IF key = <<>>
        THEN [coll |-> coll, name |-> "",
              error |-> DriverError("67", <<"Index keys cannot be empty">>)]
        ELSE IF same # {} /\ ix \notin same
        THEN [coll |-> coll, name |-> "",
              error |-> DriverError("85", <<"Index already exists with different options">>)]
        ELSE IF unique /\ HasDuplicates(coll, key)
        THEN [coll |-> [coll EXCEPT !.exists = TRUE],
              error |-> DriverError(DupKeyCode,
                            <<"E11000 duplicate key error collection: ", ns, " index: ", ix.name>>),
              name |-> ""]
        ELSE [coll |-> [coll EXCEPT !.exists = TRUE, !.indexes = @ \cup {ix}],
              error |-> NoError, name |-> ix.name]

ensureIndex(c, st, collectionName, field, options, fail) ==
    LET entry == requireDb(c)
        r == createIndex(collOf(st, c), nsOf(c, collectionName), <<field>>, options)
    IN  IF entry # NoError THEN Raised(st, entry, <<>>)
        ELSE IF fail THEN Raised(st, NetworkError, <<"createIndex">>)
        ELSE IF r.error # NoError THEN Raised(putColl(st, c, r.coll), r.error, <<"createIndex">>)
        ELSE Ok(putColl(st, c, r.coll), NameValue(r.name), <<"createIndex">>)

ensureUniqueIndex(c, st, collectionName, field, fail) ==
    ensureIndex(c, st, collectionName, field, [unique |-> TRUE], fail)

ensureCompoundIndex(c, st, collectionName, fields, options, fail) ==
    LET entry == requireDb(c)
        r == createIndex(collOf(st, c), nsOf(c, collectionName), fields, options)
    IN  IF entry # NoError THEN Raised(st, entry, <<>>)
        ELSE IF fail THEN Raised(st, NetworkError, <<"createIndex">>)
        ELSE IF r.error # NoError THEN Raised(putColl(st, c, r.coll), r.error, <<"createIndex">>)
        ELSE Ok(putColl(st, c, r.coll), NameValue(r.name), <<"createIndex">>)

listIndexes(c, st, collectionName, fail) ==
    LET entry == requireDb(c)
        coll == collOf(st, c)
    IN  IF entry # NoError THEN Raised(st, entry, <<>>)
        ELSE IF fail THEN Raised(st, NetworkError, <<"listIndexes">>)
        ELSE IF ~coll.exists THEN Raised(st, NamespaceNotFound, <<"listIndexes">>)
        ELSE Ok(st, [kind |-> "indexes", names |-> {ix.name : ix \in coll.indexes \cup {IdIndex}}],
                <<"listIndexes">>)

dropIndex(c, st, collectionName, indexName, fail) ==
    LET entry == requireDb(c)
        coll == collOf(st, c)
    IN  IF entry # NoError THEN Raised(st, entry, <<>>)
        ELSE IF fail THEN Raised(st, NetworkError, <<"dropIndex">>)
        ELSE IF ~coll.exists THEN Raised(st, NamespaceNotFound, <<"dropIndex">>)
        ELSE IF indexName = IdIndex.name
        THEN Raised(st, DriverError("72", <<"cannot drop _id index">>), <<"dropIndex">>)
        ELSE IF \A ix \in coll.indexes : ix.name # indexName
        THEN Raised(st, DriverError("27", <<"index not found with name">>), <<"dropIndex">>)
        ELSE Ok(putColl(st, c, [coll EXCEPT !.indexes = {ix \in @ : ix.name # indexName}]),
                Void, <<"dropIndex">>)

----------------------------------------------------------------------------
(* Connector: bulk operations *)

assertNotEmptyAccepts(value, name, context) == NoError

\* assertNotEmpty(value, name, context)
assertNotEmpty(value, name, context) ==
    IF Len(value) = 0
    THEN ValidationError(<<context, ": ", name, " cannot be empty">>, name)
    ELSE NoError

Positions(n) == [i \in 1..n |-> i]

\* An entry of inserted or failed carries, besides what the code puts there,
\* the position src of the input document it was made from.
\* fail: the call fails as a whole; rejected: the positions of the documents
\* the collection's validator rejects
createMany(c, st, collectionName, documents, fail, rejected) ==
    LET entry == requireDb(c)
        empty == assertNotEmpty(documents, "documents", "createMany")
        r == insertMany(collOf(st, c), nsOf(c, collectionName), documents, st.ids, rejected)
        st2 == [putColl(st, c, r.coll) EXCEPT !.ids = @ + NewIds(documents)]
        failedIndexes == {r.writeErrors[i].index : i \in 1..Len(r.writeErrors)}
        \* documents.forEach, in input order
        failedAt == SelectSeq(Positions(Len(documents)), LAMBDA i : i \in failedIndexes)
        insertedAt == SelectSeq(Positions(Len(documents)),
                        LAMBDA i : /\ i \notin failedIndexes
                                   /\ i \in DOMAIN r.insertedIds
                                   /\ Truthy(r.insertedIds[i]))
        inserted == [k \in 1..Len(insertedAt) |->
                        [doc |-> withId(documents[insertedAt[k]], r.insertedIds[insertedAt[k]]),
                         src |-> insertedAt[k]]]
        failed == [k \in 1..Len(failedAt) |->
                        [document |-> documents[failedAt[k]],
                         error |-> DuplicateKeyError(collectionName, "unknown", "unknown"),
                         src |-> failedAt[k]]]
    IN  IF entry # NoError THEN Raised(st, entry, <<>>)
        ELSE IF empty # NoError THEN Raised(st, empty, <<>>)
        ELSE IF fail THEN Raised(st, NetworkError, <<"insertMany">>)
        ELSE IF ~r.ok /\ r.code # DupKeyCode
        THEN Raised(st2, DriverError(r.code, r.message), <<"insertMany">>)
        ELSE IF Len(failed) > 0 /\ Len(inserted) = 0
        THEN Raised(st2,
                    ValidationError(<<"All ", ToString(Len(documents)),
                                      " documents failed to insert">>, "documents"),
                    <<"insertMany">>)
        ELSE Ok(st2, [kind |-> "bulk", inserted |-> inserted, failed |-> failed],
                <<"insertMany">>)

\* Collection.updateMany(filter, { $set: fields }): the documents are updated
\* in turn; an update that violates a unique index stops it with an error
RECURSIVE updateFrom(_, _, _, _, _, _)
updateFrom(pos, coll, ns, filter, fields, modified) ==
    IF pos > Len(coll.docs) THEN [coll |-> coll, error |-> NoError, modifiedCount |-> modified]
    ELSE LET doc == coll.docs[pos]
             after == merged(doc, fields)
         IN  IF ~Matches(doc, filter) \/ after = doc
             THEN updateFrom(pos + 1, coll, ns, filter, fields, modified)
             ELSE IF ViolatedBy(coll, after, OthersAt(coll, pos)) # {}
             THEN [coll |-> coll, modifiedCount |-> modified,
                   error |-> DriverError(DupKeyCode,
                                DupKeyMessage(ns, FirstViolated(coll, after, OthersAt(coll, pos)),
                                              after))]
             ELSE updateFrom(pos + 1, [coll EXCEPT !.docs[pos] = after], ns, filter, fields,
                             modified + 1)

updateMany(c, st, collectionName, filter, update, fail) ==
    LET entry == requireDb(c)
        r == updateFrom(1, collOf(st, c), nsOf(c, collectionName), filter, update, 0)
    IN  IF entry # NoError THEN Raised(st, entry, <<>>)
        ELSE IF fail THEN Raised(st, NetworkError, <<"updateMany">>)
        ELSE IF r.error # NoError THEN Raised(putColl(st, c, r.coll), r.error, <<"updateMany">>)
        ELSE Ok(putColl(st, c, r.coll), NumValue(r.modifiedCount), <<"updateMany">>)

EmptyFilter == [k \in {} |-> 0]

\* Collection.deleteMany(filter)
removeMatching(coll, filter) ==
    [coll EXCEPT !.docs = SelectSeq(@, LAMBDA d : ~Matches(d, filter))]

deleteManyUnguarded(c, st, collectionName, filter, fail) ==
    LET entry == requireDb(c)
        coll == collOf(st, c)
    IN  IF entry # NoError THEN Raised(st, entry, <<>>)
        ELSE IF fail THEN Raised(st, NetworkError, <<"deleteMany">>)
        ELSE Ok(putColl(st, c, removeMatching(coll, filter)),
                NumValue(Len(MatchingDocs(coll, filter))), <<"deleteMany">>)

deleteMany(c, st, collectionName, filter, fail) ==
    LET entry == requireDb(c)
        coll == collOf(st, c)
    IN  IF entry # NoError THEN Raised(st, entry, <<>>)
        ELSE IF DOMAIN filter = {}
        THEN Raised(st, ValidationError(<<"deleteMany requires a non-empty filter. ",
                                          "Use deleteAll() to delete all documents.">>,
                                        "filter"), <<>>)
        ELSE IF fail THEN Raised(st, NetworkError, <<"deleteMany">>)
        ELSE Ok(putColl(st, c, removeMatching(coll, filter)),
                NumValue(Len(MatchingDocs(coll, filter))), <<"deleteMany">>)

deleteAll(c, st, collectionName, fail) ==
    LET entry == requireDb(c)
        coll == collOf(st, c)
    IN  IF entry # NoError THEN Raised(st, entry, <<>>)
        ELSE IF fail THEN Raised(st, NetworkError, <<"deleteMany">>)
        ELSE Ok(putColl(st, c, removeMatching(coll, EmptyFilter)),
                NumValue(Len(coll.docs)), <<"deleteMany">>)

----------------------------------------------------------------------------
(* Inputs *)

AttemptErrors == {"ECONNREFUSED", "ETIMEDOUT"}

ConnectOptionsValues ==
    {NoOptions,
     [retry |-> [maxAttempts |-> 1, baseDelayMs |-> 10]],
     [retry |-> [maxAttempts |-> 2, baseDelayMs |-> 10]],
     [retry |-> [maxAttempts |-> 0]]}

\* the scripts that are exactly the attempts a call with these options makes:
\* failures up to the first success, or maxAttempts failures
ScriptsFor(options) ==
    LET n == mergeOptions(options).maxAttempts IN
    {o \in UNION {[1..k -> {[ok |-> TRUE, val |-> "connected"]}
                                \cup {[ok |-> FALSE, val |-> e] : e \in AttemptErrors}] :
                    k \in 0..MaxAttemptsBound} :
        /\ Len(o) <= n
        /\ \A k \in 1..Len(o) : o[k].ok => k = Len(o)
        /\ (Len(o) < n => Len(o) > 0 /\ o[Len(o)].ok)}

----------------------------------------------------------------------------
(* The connector as a state machine: one call at a time, each run to completion *)

NoCall == [op |-> "none", args |-> NoOptions, status |-> "returned", error |-> NoError,
           value |-> Void, io |-> <<>>, entry |-> FALSE]

NoRun == [options |-> NoOptions, outcomes |-> <<>>,
          run |-> [status |-> "none", value |-> NoValue, error |-> NoValue, trace |-> <<>>]]

Init ==
    /\ conn = NewConnector
    /\ clients = <<>>
    /\ store = EmptyStore
    /\ last = NoCall
    /\ registry = Loaded
    /\ tasks = <<>>
    /\ retry = NoRun

\* record a completed call
Completed(op, args, out) ==
    [op |-> op, args |-> args, status |-> out.status, error |-> out.error,
     value |-> out.value, io |-> out.io, entry |-> isConnected(conn)]

\* a call of connect with its inputs drawn from the given sets, while fewer
\* than maxClients clients have been created
ConnectWith(optionsSet, uriSet, dbNameSet, maxClients) ==
    \E options \in optionsSet :
      \E outcomes \in ScriptsFor(retryOf(options)) :
        \E mongoUri \in uriSet, dbName \in dbNameSet :
            /\ Len(clients) + Len(outcomes) <= maxClients
            /\ LET out == connect(conn, clients, mongoUri, dbName, options, outcomes) IN
                /\ conn' = out.conn
                /\ clients' = out.clients
                /\ last' = Completed("connect",
                                     [mongoUri |-> mongoUri, dbName |-> dbName,
                                      options |-> options, outcomes |-> outcomes],
                                     out)
            /\ UNCHANGED <<store, retry, registry, tasks>>

Close ==
    /\ LET out == close(conn, clients) IN
        /\ conn' = out.conn
        /\ clients' = out.clients
        /\ last' = Completed("close", NoOptions, out)
    /\ UNCHANGED <<store, retry, registry, tasks>>

SetDB ==
    \E dbName \in ValidDbNames \cup {InvalidDbName} :
        /\ LET out == setDB(conn, clients, dbName) IN
            /\ conn' = out.conn
            /\ clients' = out.clients
            /\ last' = Completed("setDB", [dbName |-> dbName], out)
        /\ UNCHANGED <<store, retry, registry, tasks>>

Spec ==
    Init /\ [][\/ ConnectWith(ConnectOptionsValues, {"mongodb://a", "mongodb://b"},
                               {NoDbName, InvalidDbName} \cup ValidDbNames, MaxClients)
               \/ Close
               \/ SetDB]_vars

----------------------------------------------------------------------------
(* The operations on the store, called on the connector in any state *)

\* a completed call of a CRUD or index operation
DataCall(op, args, out) ==
    /\ store' = out.store
    /\ last' = Completed(op, args, out)
    /\ UNCHANGED <<conn, clients, retry, registry, tasks>>

\* documents without an _id, and one with the number 0 as its _id
InputDocs ==
    {[name |-> n] : n \in {"Alice", "Bob"}}
        \cup {[_id |-> [t |-> "num", v |-> 0], name |-> "Alice"]}

\* the documents created so far leave room for n more generated ObjectIds
RoomFor(n) == store.ids + n <= MaxIds

GetOne(filters) ==
    \E collectionName \in Collections, query \in filters, fail \in BOOLEAN :
        DataCall("getOne", [query |-> query, fail |-> fail],
                 getOne(conn, store, collectionName, query, fail))

GetMany(filters) ==
    \E collectionName \in Collections, filter \in filters,
       options \in {NoOptions, [sort |-> -1, skip |-> 0, limit |-> 1]},
       fail \in BOOLEAN :
        DataCall("getMany", [filter |-> filter, options |-> options, fail |-> fail],
                 getMany(conn, store, collectionName, filter, options, fail))

Count(filters) ==
    \E collectionName \in Collections, filter \in filters, fail \in BOOLEAN :
        DataCall("count", [filter |-> filter],
                 count(conn, store, collectionName, filter, fail))

Exists(filters) ==
    \E collectionName \in Collections, filter \in filters, fail \in BOOLEAN :
        DataCall("exists", [filter |-> filter],
                 exists(conn, store, collectionName, filter, fail))

CreateOne(docs) ==
    \E collectionName \in Collections, newObj \in docs,
       resp \in {"ok", "fail", "unack", "reject"} :
        /\ RoomFor(NewIds(<<newObj>>))
        /\ DataCall("createOne", [newObj |-> newObj, resp |-> resp],
                    createOne(conn, store, collectionName, newObj, resp))

UpdateOne(ids) ==
    \E collectionName \in Collections, fail \in BOOLEAN,
       updateObj \in {[name |-> "Bob"]} \cup {[_id |-> id, name |-> "Bob"] : id \in ids} :
        DataCall("updateOne", [updateObj |-> updateObj, fail |-> fail],
                 updateOne(conn, store, collectionName, updateObj, fail))

DeleteOne(ids) ==
    \E collectionName \in Collections, fail \in BOOLEAN,
       deleteObj \in {[name |-> "Bob"]} \cup {[_id |-> id] : id \in ids} :
        DataCall("deleteOne", [deleteObj |-> deleteObj, fail |-> fail],
                 deleteOne(conn, store, collectionName, deleteObj, fail))

EnsureIndex ==
    \E collectionName \in Collections, fail \in BOOLEAN,
       options \in {NoOptions, [unique |-> TRUE]} :
        DataCall("ensureIndex", [field |-> "name", options |-> options],
                 ensureIndex(conn, store, collectionName, "name", options, fail))

EnsureUniqueIndex ==
    \E collectionName \in Collections, fail \in BOOLEAN :
        DataCall("ensureUniqueIndex", [field |-> "name"],
                 ensureUniqueIndex(conn, store, collectionName, "name", fail))

EnsureCompoundIndex ==
    \E collectionName \in Collections, fail \in BOOLEAN,
       fields \in {<<>>, <<"name", "_id">>} :
        DataCall("ensureCompoundIndex", [fields |-> fields],
                 ensureCompoundIndex(conn, store, collectionName, fields, NoOptions, fail))

ListIndexes ==
    \E collectionName \in Collections, fail \in BOOLEAN :
        DataCall("listIndexes", NoOptions, listIndexes(conn, store, collectionName, fail))

DropIndex ==
    \E collectionName \in Collections, fail \in BOOLEAN,
       indexName \in {"name_1", "name_1__id_1", "_id_"} :
        DataCall("dropIndex", [indexName |-> indexName],
                 dropIndex(conn, store, collectionName, indexName, fail))

\* the document lists of at most n of the given documents
Batches(docs, n) == UNION {[1..k -> docs] : k \in 0..n}

CreateMany(docs) ==
    \E collectionName \in Collections, documents \in Batches(docs, MaxBatch), fail \in BOOLEAN :
        \E rejected \in SUBSET (1..Len(documents)) :
            /\ RoomFor(NewIds(documents))
            /\ DataCall("createMany",
                        [documents |-> documents, fail |-> fail, rejected |-> rejected],
                        createMany(conn, store, collectionName, documents, fail, rejected))

UpdateMany(filters) ==
    \E collectionName \in Collections, filter \in filters, fail \in BOOLEAN,
       update \in {[name |-> "Bob"]} :
        DataCall("updateMany", [filter |-> filter, update |-> update],
                 updateMany(conn, store, collectionName, filter, update, fail))

DeleteMany(filters) ==
    \E collectionName \in Collections, filter \in filters, fail \in BOOLEAN :
        DataCall("deleteMany", [filter |-> filter, fail |-> fail],
                 deleteMany(conn, store, collectionName, filter, fail))

DeleteAll ==
    \E collectionName \in Collections, fail \in BOOLEAN :
        DataCall("deleteAll", NoOptions, deleteAll(conn, store, collectionName, fail))

\* one connection attempt per connect, to one server, with or without a database
MaxReconnects == 2

\* no filter, a name, and the 24 hex characters of the first generated ObjectId
SomeFilters == {EmptyFilter, [name |-> "Alice"], [_id |-> [t |-> "str", v |-> 1]]}
\* a native ObjectId and a string that is not 24 hex characters
SomeIds == {ObjectIdOf(1), [t |-> "str", v |-> -1]}
SomeDocs == {[name |-> "Alice"]}

SpecOps ==
    Init /\ [][\/ ConnectWith({[retry |-> [maxAttempts |-> 1]]}, {"mongodb://a"},
                              {NoDbName, "test-db"}, MaxReconnects)
               \/ Close
               \/ GetOne(SomeFilters)
               \/ GetMany(SomeFilters)
               \/ Count(SomeFilters)
               \/ Exists(SomeFilters)
               \/ CreateOne(SomeDocs)
               \/ UpdateOne(SomeIds)
               \/ DeleteOne(SomeIds)
               \/ EnsureIndex
               \/ EnsureUniqueIndex
               \/ EnsureCompoundIndex
               \/ ListIndexes
               \/ DropIndex
               \/ CreateMany(SomeDocs)
               \/ UpdateMany(SomeFilters)
               \/ DeleteMany(SomeFilters)
               \/ DeleteAll]_vars

----------------------------------------------------------------------------
(* The singleton, the test connectors and the calls made on them *)

\* a completed call of a function of the testing utilities or of getInstance
RegistryCall(op, reg, value) ==
    /\ registry' = reg
    /\ last' = [op |-> op, args |-> NoOptions, status |-> "returned", error |-> NoError,
                value |-> value, io |-> <<>>, entry |-> FALSE]
    /\ UNCHANGED <<conn, clients, store, retry, tasks>>

GetInstance ==
    /\ Len(getInstance(registry).registry.objects) <= MaxInstances
    /\ RegistryCall("getInstance", getInstance(registry).registry,
                    [kind |-> "instance", ref |-> getInstance(registry).value])

ResetMongoConnector ==
    RegistryCall("resetMongoConnector", resetMongoConnector(registry), Void)

CreateTestConnector ==
    /\ Len(registry.objects) < MaxInstances
    /\ RegistryCall("createTestConnector", createTestConnector(registry).registry,
                    [kind |-> "instance", ref |-> createTestConnector(registry).value])

\* a completed call of connect, close or setDB on the object o
InstanceCall(o, op, args, out) ==
    /\ registry' = withFields(registry, o, out.conn)
    /\ clients' = out.clients
    /\ last' = [op |-> op, args |-> args, status |-> out.status, error |-> out.error,
                value |-> out.value, io |-> out.io,
                entry |-> isConnected(registry.objects[o]), on |-> o]
    /\ UNCHANGED <<conn, store, retry, tasks>>

ConnectOn ==
    \E o \in DOMAIN registry.objects, dbName \in {NoDbName, "test-db"}, ok \in BOOLEAN :
        LET outcomes == <<[ok |-> ok, val |-> IF ok THEN "connected" ELSE "ECONNREFUSED"]>>
            options == [retry |-> [maxAttempts |-> 1]]
        IN  /\ Len(clients) < MaxReconnects
            /\ InstanceCall(o, "connect",
                            [mongoUri |-> "mongodb://a", dbName |-> dbName,
                             options |-> options, outcomes |-> outcomes],
                            connect(registry.objects[o], clients, "mongodb://a", dbName,
                                    options, outcomes))

CloseOn ==
    \E o \in DOMAIN registry.objects :
        InstanceCall(o, "close", NoOptions, close(registry.objects[o], clients))

SetDBOn ==
    \E o \in DOMAIN registry.objects, dbName \in ValidDbNames :
        InstanceCall(o, "setDB", [dbName |-> dbName],
                     setDB(registry.objects[o], clients, dbName))

SpecInstances ==
    Init /\ [][\/ GetInstance
               \/ ResetMongoConnector
               \/ CreateTestConnector
               \/ ConnectOn
               \/ CloseOn
               \/ SetDBOn]_vars

\* a connector connected to the database "test-db" of an empty store, as
\* connect(uri, "test-db") leaves it, and then the bulk operations
SpecBulk ==
    /\ conn = [client |-> 1, db |-> [client |-> 1, name |-> "test-db"], connected |-> TRUE]
    /\ clients = <<"open">>
    /\ store = EmptyStore
    /\ last = NoCall
    /\ registry = Loaded
    /\ tasks = <<>>
    /\ retry = NoRun
    /\ [][\/ CreateMany(InputDocs)
          \/ CreateOne(InputDocs)
          \/ EnsureUniqueIndex
          \/ DeleteAll]_vars

----------------------------------------------------------------------------
(* Overlapping calls.  connect and close are async: a call runs until its    *)
(* next await and is resumed, in one step, when what it awaits has settled;  *)
(* between two steps of one call the steps of other calls may run.  tasks    *)
(* holds a record for every call started; pc is where the call stands:       *)
(*   "closing"     awaiting client.close()                                   *)
(*   "ready"       awaiting the promise of close(), which is resolved: the   *)
(*                 call goes on before any I/O or timer is handled           *)
(*   "connecting"  awaiting client.connect() of the client cl                *)
(*   "sleeping"    awaiting the timer between two attempts                   *)
(*   "done"        returned or raised                                        *)
(* A client is "connecting" until its connect() settles; one that close()    *)
(* was called on stays "closed" whatever its connect() does afterwards.      *)

NewTask(op, mongoUri, dbName, options, pc) ==
    [op |-> op, mongoUri |-> mongoUri, dbName |-> dbName,
     maxAttempts |-> mergeOptions(retryOf(options)).maxAttempts,
     pc |-> pc, attempt |-> 0, sleeps |-> 0, cl |-> NoClient,
     status |-> IF pc = "done" THEN "returned" ELSE "pending", error |-> NoError]

InFlight == {t \in DOMAIN tasks : tasks[t].pc # "done"}

\* no call is waiting to go on: the event loop handles I/O and timers
NoneReady == \A t \in DOMAIN tasks : tasks[t].pc # "ready"

\* close() up to its await: if (this.client) await this.client.close()
closeBegin(c, cl) == IF c.client # NoClient THEN [cl EXCEPT ![c.client] = "closed"] ELSE cl

\* the settled status of a client: close() wins over a later connect()
settled(cl, i, how) == [cl EXCEPT ![i] = IF @ = "closed" THEN @ ELSE how]

\* a call starts while fewer than maxInFlight calls are in flight
StartCall(task, maxInFlight) ==
    /\ Len(tasks) < MaxCalls
    /\ Cardinality(InFlight) < maxInFlight
    /\ clients' = closeBegin(conn, clients)
    /\ tasks' = Append(tasks, task)
    /\ UNCHANGED <<conn, store, last, retry, registry>>

\* connect(mongoUri, dbName, options) up to the await of this.close()
StartConnect(maxInFlight, dbNames, budgets) ==
    \E dbName \in dbNames, maxAttempts \in budgets :
        StartCall(NewTask("connect", "mongodb://a", dbName,
                          [retry |-> [maxAttempts |-> maxAttempts]],
                          IF conn.client # NoClient THEN "closing" ELSE "ready"),
                  maxInFlight)

\* close() up to the await of client.close(); it returns at once without a client
StartClose(maxInFlight) ==
    StartCall(NewTask("close", "", NoDbName, NoOptions,
                      IF conn.client # NoClient THEN "closing" ELSE "done"),
              maxInFlight)

\* the step of call t leaves the connector as c and the clients as cl, and
\* the call as task
Resumed(t, c, cl, task) ==
    /\ conn' = c
    /\ clients' = cl
    /\ tasks' = [tasks EXCEPT ![t] = task]
    /\ UNCHANGED <<store, last, retry, registry>>

Finished(task, status, error) ==
    [task EXCEPT !.pc = "done", !.status = status, !.error = error]

\* client.close() has settled: this.client = null; this.db = null;
\* this.connected = false; close returns, and connect goes on to withRetry
CloseSettles(t) ==
    /\ tasks[t].pc = "closing"
    /\ NoneReady
    /\ Resumed(t, NewConnector, clients,
               IF tasks[t].op = "close" THEN Finished(tasks[t], "returned", NoError)
               ELSE [tasks[t] EXCEPT !.pc = "ready"])

\* a turn of the loop of withRetry: this.client = new MongoClient(mongoUri) and
\* client.connect() is called; when the loop makes no turn, withRetry throws
\* lastError, which is undefined, into the catch block of connect
BeginAttempt(t) ==
    /\ tasks[t].pc \in {"ready", "sleeping"}
    /\ tasks[t].pc = "sleeping" => NoneReady
    /\ IF tasks[t].attempt + 1 <= tasks[t].maxAttempts
       THEN Resumed(t, [conn EXCEPT !.client = Len(clients) + 1],
                    Append(clients, "connecting"),
                    [tasks[t] EXCEPT !.pc = "connecting", !.attempt = @ + 1,
                                     !.cl = Len(clients) + 1])
       ELSE Resumed(t, connectFailed(conn, Undef, tasks[t].mongoUri).conn, clients,
                    Finished(tasks[t], "raised",
                             connectFailed(conn, Undef, tasks[t].mongoUri).error))

\* client.connect() resolves: withRetry returns, connect sets connected and
\* selects the database, and what setDB throws goes to the catch block
AttemptResolves(t) ==
    /\ tasks[t].pc = "connecting"
    /\ NoneReady
    /\ LET cl2 == settled(clients, tasks[t].cl, "open")
           c3 == [conn EXCEPT !.connected = TRUE]
           sel == setDB(c3, cl2, tasks[t].dbName)
           failed == connectFailed(c3, sel.error, tasks[t].mongoUri)
       IN  IF tasks[t].dbName = NoDbName
           THEN Resumed(t, c3, cl2, Finished(tasks[t], "returned", NoError))
           ELSE IF sel.status = "raised"
           THEN Resumed(t, failed.conn, cl2, Finished(tasks[t], "raised", failed.error))
           ELSE Resumed(t, sel.conn, cl2, Finished(tasks[t], "returned", NoError))

AttemptFailsNeverLast(t) ==
    /\ tasks[t].pc = "connecting"
    /\ NoneReady
    /\ Resumed(t, conn, settled(clients, tasks[t].cl, "failed"),
               [tasks[t] EXCEPT !.pc = "sleeping", !.sleeps = @ + 1])

\* client.connect() rejects: after the last attempt withRetry throws the
\* error into the catch block of connect, otherwise it sleeps
AttemptFails(t) ==
    /\ tasks[t].pc = "connecting"
    /\ NoneReady
    /\ LET cl2 == settled(clients, tasks[t].cl, "failed")
           failed == connectFailed(conn, Error(<<"ECONNREFUSED">>), tasks[t].mongoUri)
       IN  IF tasks[t].attempt = tasks[t].maxAttempts
           THEN Resumed(t, failed.conn, cl2, Finished(tasks[t], "raised", failed.error))
           ELSE Resumed(t, conn, cl2, [tasks[t] EXCEPT !.pc = "sleeping", !.sleeps = @ + 1])

\* a call in flight takes its next step
Resume ==
    \E t \in DOMAIN tasks :
        \/ CloseSettles(t)
        \/ BeginAttempt(t)
        \/ AttemptResolves(t)
        \/ AttemptFails(t)

\* calls of connect and close that overlap in any way
SpecAsync ==
    Init /\ [][\/ StartConnect(MaxCalls, {NoDbName, "test-db"}, 1..2)
               \/ StartClose(MaxCalls)
               \/ Resume]_vars

\* the first call of a CRUD operation, made between the steps of overlapping
\* calls of connect and close: each of the operations calls the driver before
\* its first await
SpecAsyncOps ==
    Init /\ [][\/ StartConnect(MaxCalls, {"test-db"}, {1})
               \/ StartClose(MaxCalls)
               \/ Resume
               \/ last = NoCall /\ GetOne(SomeFilters)
               \/ last = NoCall /\ GetMany(SomeFilters)
               \/ last = NoCall /\ Count(SomeFilters)
               \/ last = NoCall /\ Exists(SomeFilters)
               \/ last = NoCall /\ CreateOne(SomeDocs)
               \/ last = NoCall /\ UpdateOne(SomeIds)
               \/ last = NoCall /\ DeleteOne(SomeIds)
               \/ last = NoCall /\ CreateMany(SomeDocs)
               \/ last = NoCall /\ UpdateMany(SomeFilters)
               \/ last = NoCall /\ DeleteMany(SomeFilters)
               \/ last = NoCall /\ DeleteAll]_vars

\* calls of connect and close made one after the other, each step of a call
\* in flight being taken eventually: every client.connect(), client.close()
\* and sleep settles
SpecSteps ==
    Init /\ [][\/ StartConnect(1, {NoDbName, "test-db"}, 0..2)
               \/ StartClose(1)
               \/ Resume]_vars
         /\ WF_vars(Resume)

----------------------------------------------------------------------------
(* withRetry on its own: any options, any script of attempts *)

RetryOptionsValues ==
    {o \in UNION {[K -> {0, 1, 2, 3, 100, 1000, 5000}] : K \in SUBSET DOMAIN DEFAULT_RETRY_OPTIONS} :
        /\ "maxAttempts" \in DOMAIN o => o.maxAttempts \in 0..MaxAttemptsBound
        /\ "baseDelayMs" \in DOMAIN o => o.baseDelayMs \in {100, 1000}
        /\ "maxDelayMs" \in DOMAIN o => o.maxDelayMs \in {100, 5000}}

WithRetry ==
    /\ retry.run.status = "none"
    /\ retry' = [retry EXCEPT !.run = withRetry(retry.outcomes, retry.options)]
    /\ UNCHANGED <<conn, clients, store, last, registry, tasks>>

SpecRetry ==
    /\ conn = NewConnector
    /\ clients = <<>>
    /\ store = EmptyStore
    /\ last = NoCall
    /\ registry = Loaded
    /\ tasks = <<>>
    /\ \E options \in RetryOptionsValues,
          outcomes \in [1..MaxAttemptsBound ->
                        {[ok |-> TRUE, val |-> v] : v \in {"r1", "r2"}}
                            \cup {[ok |-> FALSE, val |-> e] : e \in AttemptErrors}] :
        retry = [options |-> options, outcomes |-> outcomes, run |-> NoRun.run]
    /\ [][WithRetry]_vars

----------------------------------------------------------------------------
(* Identifier utilities: toObjectId and isValidObjectId.  A string is the    *)
(* sequence of its runs, [ch |-> a character, n |-> how many times], with     *)
(* neighbouring runs of different characters; a native ObjectId holds its 12  *)
(* bytes, here the lower-case hexadecimal digits that toHexString() gives.    *)

HexLength == 24

\* the characters of a string, as text
RECURSIVE Text(_)
Text(runs) ==
    IF runs = <<>> THEN ""
    ELSE IF Head(runs).n = 0 THEN Text(Tail(runs))
    ELSE Head(runs).ch \o Text(<<[Head(runs) EXCEPT !.n = @ - 1]>> \o Tail(runs))

matchesHex24AnyCharacter(runs) == Len(Text(runs)) = HexLength

\* /^[a-fA-F0-9]{24}$/.test(value)
matchesHex24(runs) ==
    /\ Len(Text(runs)) = HexLength
    /\ \A i \in 1..Len(runs) : runs[i].ch \in {"a", "f", "A", "F", "0", "7"}

\* new ObjectId(value) for 24 hexadecimal characters: upper and lower case
\* digits give the same bytes
ObjectId(runs) ==
    [t |-> "oid",
     hex |-> [i \in 1..Len(runs) |->
                [runs[i] EXCEPT !.ch = CASE @ = "A" -> "a" [] @ = "F" -> "f" [] OTHER -> @]]]

\* new InvalidObjectIdError(value)
InvalidObjectIdError(value) ==
    [kind |-> "InvalidObjectIdError",
     message |-> <<"Invalid ObjectId format: ", value>>,
     uri |-> "", field |-> "_id", value |-> value]

\* a value is [t |-> "oid", hex |-> runs], [t |-> "string", runs |-> runs] or
\* a value of another type, [t |-> "number", runs |-> what String(value) gives]
toObjectId(value) ==
    IF value.t = "oid"
    THEN [status |-> "returned", error |-> NoError, value |-> value]
    ELSE IF value.t # "string"
    THEN [status |-> "raised", error |-> InvalidObjectIdError(Text(value.runs)), value |-> Void]
    ELSE IF ~matchesHex24(value.runs)
    THEN [status |-> "raised", error |-> InvalidObjectIdError(Text(value.runs)), value |-> Void]
    ELSE [status |-> "returned", error |-> NoError, value |-> ObjectId(value.runs)]

isValidObjectId(value) ==
    IF value.t = "oid" THEN TRUE
    ELSE IF value.t # "string" THEN FALSE
    ELSE matchesHex24(value.runs)

\* the values a call is made with, one call in a behaviour: strings of at most
\* MaxRuns runs, native identifiers and numbers
IdValues ==
    LET Runs == [ch : {"a", "F", "7", "z"}, n : {1, 11, 12, 13, 23, 24, 25}]
        Strings == {r \in UNION {[1..k -> Runs] : k \in 0..MaxRuns} :
                        \A i \in 1..(Len(r) - 1) : r[i].ch # r[i + 1].ch}
    IN  {[t |-> "string", runs |-> r] : r \in Strings}
            \cup {ObjectId(r) : r \in {x \in Strings : matchesHex24(x)}}
            \cup {[t |-> "number", runs |-> <<[ch |-> "7", n |-> k]>>] : k \in {3, 24}}

ToObjectId ==
    \E value \in IdValues :
        /\ last = NoCall
        /\ last' = Completed("toObjectId", [value |-> value],
                             toObjectId(value) @@ [io |-> <<>>])
        /\ UNCHANGED <<conn, clients, store, retry, registry, tasks>>

IsValidObjectId ==
    \E value \in IdValues :
        /\ last = NoCall
        /\ last' = Completed("isValidObjectId", [value |-> value],
                             [status |-> "returned", error |-> NoError,
                              value |-> BoolValue(isValidObjectId(value)), io |-> <<>>])
        /\ UNCHANGED <<conn, clients, store, retry, registry, tasks>>

SpecIds == Init /\ [][ToObjectId \/ IsValidObjectId]_vars

----------------------------------------------------------------------------
(* Properties *)

CrudOps == {"getOne", "getMany", "count", "exists", "createOne", "updateOne", "deleteOne",
            "createMany", "updateMany", "deleteMany", "deleteAll"}

\* a client was closed and no connect has succeeded since
AfterClose == conn.client = NoClient /\ "closed" \in Range(clients)

RaisedKind(call, kind) == call.status = "raised" /\ call.error.kind = kind

\* C1: after close() has completed, isConnected() is false and every CRUD
\* call raises a ConnectionError, until a later connect() succeeds.
C1_CrudAfterCloseRaisesConnectionError ==
    /\ (last.op = "close" => ~isConnected(conn))
    /\ (AfterClose /\ last.op \in CrudOps => RaisedKind(last, "ConnectionError"))

GuardedOps == {"getMany", "count", "exists", "createOne", "createMany", "updateMany",
               "deleteMany", "deleteAll", "ensureIndex", "ensureUniqueIndex",
               "ensureCompoundIndex", "listIndexes", "dropIndex"}

\* C2: a call of one of the guarded operations on a connector that is not
\* connected raises ConnectionError, issues no call to the store and leaves
\* the store and the connector as they were.
C2_NotConnectedRaisesBeforeIO ==
    [][(~isConnected(conn) /\ last'.op \in GuardedOps)
        => /\ RaisedKind(last', "ConnectionError")
           /\ last'.io = <<>>
           /\ store' = store
           /\ conn' = conn
           /\ clients' = clients]_vars

C2_Witness ==
    /\ AfterClose
    /\ last.op = "createMany"
    /\ ~last.entry
    /\ RaisedKind(last, "ConnectionError")
    /\ Len(last.args.documents) > 0

\* C3, as claimed: the database handle is non-null if and only if the
\* connector is connected.
C3_DbHandleIffConnected == (conn.db # NoDbHandle) <=> isConnected(conn)

\* C3, amended: the database handle is non-null only if the connector is
\* connected, and it is then a handle of the current client.
C3_DbHandleOnlyIfConnected ==
    conn.db # NoDbHandle => isConnected(conn) /\ conn.db.client = conn.client

C3_Witness ==
    /\ last.op = "setDB"
    /\ last.status = "returned"
    /\ conn.db.name = "custom-db"
    /\ "closed" \in Range(clients)

AllAttemptsFailed(outcomes) ==
    Len(outcomes) >= 1 /\ \A k \in 1..Len(outcomes) : ~outcomes[k].ok

\* C4: when every connection attempt of a connect call fails, the connector
\* is disconnected with a null client afterwards and the call raises a
\* ConnectionError carrying the URI passed in and the message of the last
\* attempt's error.
C4_ExhaustedConnectRaises ==
    (last.op = "connect" /\ AllAttemptsFailed(last.args.outcomes))
        => /\ ~isConnected(conn)
           /\ conn.client = NoClient
           /\ RaisedKind(last, "ConnectionError")
           /\ last.error.uri = last.args.mongoUri
           /\ Contains(last.error.message,
                       last.args.outcomes[Len(last.args.outcomes)].val)
           /\ Len(Calls(last.value)) = Len(last.args.outcomes)

C4_Witness ==
    /\ last.op = "connect"
    /\ last.entry
    /\ Len(last.args.outcomes) = 2
    /\ AllAttemptsFailed(last.args.outcomes)
    /\ last.args.outcomes[1].val # last.args.outcomes[2].val
    /\ last.args.mongoUri = "mongodb://b"
    /\ RaisedKind(last, "ConnectionError")

\* C5: after every connect or close call, each client the connector connected
\* is the connector's current client or has been closed, and a connect on a
\* connected connector closes the existing client first.
C5_NoLeakedClient ==
    /\ \A i \in 1..Len(clients) : clients[i] = "open" => conn.client = i
    /\ (last.op = "connect" /\ last.entry => last.io = <<"client.close">>)

\* C6: close() on a disconnected connector changes nothing, performs no I/O
\* and raises nothing; after any close() the connector is disconnected with a
\* null client and a null database handle.
C6_CloseIdempotent ==
    [][last'.op = "close"
        => /\ last'.status = "returned"
           /\ ~isConnected(conn') /\ conn'.client = NoClient /\ conn'.db = NoDbHandle
           /\ (~isConnected(conn)
                => conn' = conn /\ clients' = clients /\ store' = store /\ last'.io = <<>>)]_vars

C6_Witness ==
    /\ last.op = "close"
    /\ ~last.entry
    /\ last.io = <<>>
    /\ "closed" \in Range(clients)

\* the first attempt of the script that succeeds, 0 when none does
FirstSuccess(outcomes, n) ==
    IF \E k \in 1..n : outcomes[k].ok
    THEN CHOOSE k \in 1..n : outcomes[k].ok /\ \A j \in 1..(k - 1) : ~outcomes[j].ok
    ELSE 0

\* C7: for maxAttempts >= 1, withRetry invokes the action attempt by attempt
\* up to the first success or maxAttempts failures; it returns the result of
\* the first successful attempt j after exactly j invocations, or raises the
\* error of the last attempt after exactly maxAttempts invocations.
C7_RetryUntilSuccessOrBudget ==
    LET n == mergeOptions(retry.options).maxAttempts
        j == FirstSuccess(retry.outcomes, n)
        run == retry.run
    IN  (run.status # "none" /\ n >= 1)
            => /\ \A k \in 1..Len(Calls(run)) : Calls(run)[k] = CallEv(k)
               /\ IF j # 0
                  THEN /\ run.status = "returned"
                       /\ run.value = retry.outcomes[j].val
                       /\ Len(Calls(run)) = j
                  ELSE /\ run.status = "raised"
                       /\ run.error = retry.outcomes[n].val
                       /\ Len(Calls(run)) = n

C7_Witness ==
    /\ retry.run.status = "raised"
    /\ Len(Calls(retry.run)) = 3
    /\ retry.outcomes[1].val # retry.outcomes[3].val
    /\ retry.run.error = retry.outcomes[3].val

RECURSIVE SumSleeps(_)
SumSleeps(seq) == IF seq = <<>> THEN 0 ELSE Head(seq).n + SumSleeps(Tail(seq))

\* C8: the sleep after failed attempt k < maxAttempts is
\* min(baseDelayMs * 2^(k-1), maxDelayMs); there is no sleep before the first
\* attempt or after the last; three failing attempts with baseDelayMs 100 and
\* the default maxDelayMs sleep 300 ms in total.
C8_BackoffDelays ==
    LET opts == mergeOptions(retry.options)
        run == retry.run
        tr == run.trace
    IN  (run.status # "none" /\ opts.maxAttempts >= 1)
            => /\ Len(tr) % 2 = 1
               /\ \A i \in 1..Len(tr) :
                    IF i % 2 = 1 THEN tr[i].ev = "call"
                    ELSE /\ tr[i].ev = "sleep"
                         /\ tr[i - 1].n < opts.maxAttempts
                         /\ tr[i].n = Min(opts.baseDelayMs * (2 ^ (tr[i - 1].n - 1)),
                                          opts.maxDelayMs)
               /\ Len(Sleeps(run)) = Len(Calls(run)) - 1
               /\ (/\ opts.maxAttempts = 3 /\ opts.baseDelayMs = 100 /\ opts.maxDelayMs = 5000
                   /\ run.status = "raised")
                    => SumSleeps(Sleeps(run)) = 300

C8_Witness ==
    /\ retry.run.status = "raised"
    /\ "maxDelayMs" \notin DOMAIN retry.options
    /\ Sleeps(retry.run) = <<SleepEv(100), SleepEv(200)>>

\* the entries of a result list made from the input document at position i
EntriesOf(list, i) == {k \in 1..Len(list) : list[k].src = i}

\* C9: a result returned by createMany has inserted.length + failed.length
\* equal to the input length, and every input document appears in exactly one
\* of inserted and failed.
C9_BulkResultPartitionsInput ==
    (last.op = "createMany" /\ last.status = "returned")
        => /\ Len(last.value.inserted) + Len(last.value.failed) = Len(last.args.documents)
           /\ \A i \in 1..Len(last.args.documents) :
                Cardinality(EntriesOf(last.value.inserted, i))
                    + Cardinality(EntriesOf(last.value.failed, i)) = 1

\* the documents of the collection the connector has selected
SelectedDocs(st) == st.dbs[conn.db.name].docs

\* C10: createMany never returns a non-empty failed list with an empty inserted
\* list; when the store rejects every input document it raises a
\* ValidationError saying that all N documents failed.
C10_TotalFailureRaisesValidationError ==
    [][last'.op = "createMany"
        => /\ last'.status = "returned"
                => ~(Len(last'.value.failed) > 0 /\ Len(last'.value.inserted) = 0)
           /\ (/\ last'.io = <<"insertMany">>
               /\ ~last'.args.fail
               /\ SelectedDocs(store') = SelectedDocs(store))
                => /\ RaisedKind(last', "ValidationError")
                   /\ last'.error.message
                        = <<"All ", ToString(Len(last'.args.documents)),
                            " documents failed to insert">>]_vars

\* C11: createMany with an empty document list, on a connected connector with
\* a database selected, raises a ValidationError, issues no call to the store
\* and leaves the store as it was.
C11_EmptyCreateManyRaisesBeforeIO ==
    [][(/\ last'.op = "createMany"
        /\ last'.args.documents = <<>>
        /\ isConnected(conn) /\ hasDb(conn))
        => /\ RaisedKind(last', "ValidationError")
           /\ last'.error.field = "documents"
           /\ last'.io = <<>>
           /\ store' = store]_vars

C11_Witness ==
    /\ last.op = "createMany"
    /\ last.args.documents = <<>>
    /\ RaisedKind(last, "ValidationError")
    /\ last.io = <<>>
    /\ SelectedDocs(store) # <<>>

\* C12: on a connected connector with a database selected, deleteMany with an
\* empty filter raises a ValidationError and deletes nothing; with a non-empty
\* filter, the store responding, it deletes exactly the matching documents and
\* returns their number, 0 with the store unchanged when nothing matches.
C12_DeleteManyGuardsEmptyFilter ==
    [][(last'.op = "deleteMany" /\ isConnected(conn) /\ hasDb(conn))
        => LET filter == last'.args.filter
               before == SelectedDocs(store)
               matching == SelectSeq(before, LAMBDA d : Matches(d, filter))
           IN  /\ DOMAIN filter = {}
                    => /\ RaisedKind(last', "ValidationError")
                       /\ last'.io = <<>>
                       /\ store' = store
               /\ (DOMAIN filter # {} /\ ~last'.args.fail)
                    => /\ last'.status = "returned"
                       /\ last'.value = NumValue(Len(matching))
                       /\ SelectedDocs(store')
                            = SelectSeq(before, LAMBDA d : ~Matches(d, filter))
                       /\ (matching = <<>> => store' = store)
               /\ last'.status = "raised" => store' = store]_vars

C12_Witness ==
    /\ last.op = "deleteMany"
    /\ last.entry /\ hasDb(conn)
    /\ DOMAIN last.args.filter = {}
    /\ RaisedKind(last, "ValidationError")
    /\ Len(SelectedDocs(store)) = 2

\* the argument of an updateOne or deleteOne call
ObjOf(call) == IF call.op = "updateOne" THEN call.args.updateObj ELSE call.args.deleteObj

\* an identifier the operations accept: a native ObjectId or its 24 hex characters
WellFormed(id) == id.t = "oid" \/ isHex24(id)

\* C13: on a connected connector with a database selected and the store
\* responding, updateOne and deleteOne with a well-formed identifier that
\* matches no document raise a DocumentNotFoundError and leave the store
\* unchanged.
C13_MissingDocumentRaisesNotFound ==
    [][(/\ last'.op \in {"updateOne", "deleteOne"}
        /\ isConnected(conn) /\ hasDb(conn)
        /\ ~last'.args.fail
        /\ WellFormed(idOf(ObjOf(last')))
        /\ \A d \in Range(SelectedDocs(store)) : d._id # ObjectIdOf(idOf(ObjOf(last')).v))
        => /\ RaisedKind(last', "DocumentNotFoundError")
           /\ store' = store]_vars

\* C14: updateOne and deleteOne with a document whose _id is missing or empty
\* raise a ValidationError, issue no call to the store and leave it unchanged.
C14_MissingIdRaisesValidationError ==
    [][(last'.op \in {"updateOne", "deleteOne"} /\ ~Truthy(idOf(ObjOf(last'))))
        => /\ RaisedKind(last', "ValidationError")
           /\ last'.io = <<>>
           /\ store' = store]_vars

\* the _id a getOne, updateOne or deleteOne call was given
GivenId(call) == IF call.op = "getOne" THEN idOf(call.args.query) ELSE idOf(ObjOf(call))

\* C15: getOne, updateOne and deleteOne given an _id that is a string but not
\* 24 hexadecimal characters raise an InvalidObjectIdError, without querying
\* the store and without changing it.
C15_MalformedIdRaisesInvalidObjectId ==
    [][(/\ last'.op \in {"getOne", "updateOne", "deleteOne"}
        /\ isString(GivenId(last')) /\ ~isHex24(GivenId(last')))
        => /\ RaisedKind(last', "InvalidObjectIdError")
           /\ last'.io = <<>>
           /\ store' = store]_vars

\* C16: getMany with the 24 hex characters of an identifier returns the
\* documents getOne finds with the same filter, and an empty list, never null,
\* when nothing matches.
C16_GetManyNormalizesLikeGetOne ==
    (/\ last.op = "getMany" /\ last.status = "returned"
     /\ last.args.options = NoOptions
     /\ isHex24(idOf(last.args.filter)))
        => LET one == getOne(conn, store, "users", last.args.filter, FALSE) IN
           /\ one.status = "returned"
           /\ last.value = ListValue(IF one.value = Null THEN <<>> ELSE <<one.value.doc>>)

\* a string of exactly 24 characters, each a hexadecimal digit
IsHex24(value) ==
    /\ value.t = "string"
    /\ Len(Text(value.runs)) = 24
    /\ \A i \in 1..Len(value.runs) :
        value.runs[i].ch \in {"0", "7", "a", "f", "A", "F"}

\* what C17 says of a completed toObjectId or isValidObjectId call; back(runs)
\* is what the result of a conversion is to convert back to
IdContract(back(_)) ==
    LET v == last.args.value IN
    /\ last.op = "toObjectId"
        => IF v.t = "oid" THEN last.status = "returned" /\ last.value = v
           ELSE IF IsHex24(v)
           THEN /\ last.status = "returned"
                /\ last.value.t = "oid"
                /\ last.value.hex = back(v.runs)
           ELSE /\ RaisedKind(last, "InvalidObjectIdError")
                /\ last.error.value = Text(v.runs)
    /\ last.op = "isValidObjectId"
        => /\ last.status = "returned"
           /\ last.value = BoolValue(v.t = "oid" \/ IsHex24(v))
           /\ last.value.b <=> toObjectId(v).status = "returned"

\* C17, as claimed: toObjectId returns a native identifier unchanged, converts
\* a string of 24 hexadecimal characters to an identifier that converts back
\* to the same characters, and raises InvalidObjectIdError carrying the value
\* for anything else; isValidObjectId is true exactly when toObjectId succeeds.
C17_ToObjectIdRoundTrips == IdContract(LAMBDA runs : runs)

\* C17, amended: the identifier converts back to the characters of the string
\* in lower case.
C17_ToObjectIdRoundTripsLowerCase ==
    IdContract(LAMBDA runs :
        [i \in 1..Len(runs) |->
            [ch |-> IF runs[i].ch = "A" THEN "a" ELSE IF runs[i].ch = "F" THEN "f"
                    ELSE runs[i].ch,
             n |-> runs[i].n]])

C17_Witness ==
    /\ last.op = "toObjectId"
    /\ last.status = "returned"
    /\ last.args.value = [t |-> "string", runs |-> <<[ch |-> "F", n |-> 23], [ch |-> "7", n |-> 1]>>]
    /\ Text(last.value.hex) = "fffffffffffffffffffffff7"

\* what C18 says of a completed setDB call; accepted is the set of names for
\* which a connected connector is said to select the database
SetDBContract(accepted) ==
    last'.op = "setDB"
        => IF ~isConnected(conn)
           THEN RaisedKind(last', "ConnectionError") /\ conn' = conn
           ELSE IF last'.args.dbName \in accepted
           THEN /\ last'.status = "returned"
                /\ getDB(conn').status = "returned"
                /\ getDB(conn').value = [client |-> conn.client, name |-> last'.args.dbName]
                /\ conn'.client = conn.client
                /\ isConnected(conn')
           ELSE last'.status = "raised" /\ conn' = conn

\* C18, as claimed: setDB(name) on a connector that is not connected raises
\* ConnectionError and changes nothing; on a connected connector it selects
\* the database named name, for every name.
C18_SetDBSelectsDatabase == [][SetDBContract(ValidDbNames \cup {InvalidDbName})]_vars

\* C18, amended: on a connected connector setDB selects the database for a
\* name the driver accepts; for a name with a '.' in it the driver's error is
\* raised and nothing changes.
C18_SetDBSelectsAcceptedName == [][SetDBContract(ValidDbNames)]_vars

C18_Witness ==
    /\ last.op = "setDB"
    /\ last.entry
    /\ last.status = "returned"
    /\ last.args.dbName = "test-db"
    /\ getDB(conn).value.name = "test-db"
    /\ Len(clients) = 1

\* the kinds of error of the taxonomy
Taxonomy == {"ConnectionError", "ValidationError", "InvalidObjectIdError",
             "DuplicateKeyError", "DocumentNotFoundError", "OperationFailedError"}

\* C19: an operation that raises, raises an error of the taxonomy, and a
\* failure of the store during an operation is raised as an
\* OperationFailedError.
C19_ErrorsAreOfTheTaxonomy ==
    /\ last.status = "raised" => last.error.kind \in Taxonomy
    /\ (/\ last.op \in {"getOne", "getMany", "updateOne", "deleteOne", "deleteMany"}
        /\ last.args.fail /\ last.io # <<>>)
        => RaisedKind(last, "OperationFailedError")

\* what C20 says of a completed createOne call on a connected connector, the
\* store responding, for the unique index on the field name; sameId tells
\* whether it is also said of a document that repeats a stored _id
CreateOneContract(sameId) ==
    (/\ last'.op = "createOne" /\ last'.args.resp = "ok"
     /\ isConnected(conn) /\ hasDb(conn))
        => LET doc == last'.args.newObj
               before == SelectedDocs(store)
               after == SelectedDocs(store')
               unique == \E ix \in collOf(store, conn).indexes :
                            ix.key = <<"name">> /\ ix.unique
               repeatsName == unique /\ \E d \in Range(before) : d.name = doc.name
               repeatsId == hasId(doc) /\ \E d \in Range(before) : d._id = doc._id
           IN  /\ (repeatsName /\ (sameId \/ ~repeatsId))
                    => /\ RaisedKind(last', "DuplicateKeyError")
                       /\ last'.error.field = "name"
                       /\ last'.error.message[4] = "users"
                       /\ after = before
               /\ (~repeatsName /\ ~repeatsId)
                    => /\ last'.status = "returned"
                       /\ last'.value.kind = "doc"
                       /\ otherFields(last'.value.doc) = otherFields(doc)
                       /\ hasId(last'.value.doc)
                       /\ hasId(doc) => last'.value.doc._id = doc._id
                       /\ \A d \in Range(before) : d._id # last'.value.doc._id
                       /\ after = Append(before, last'.value.doc)
                       /\ getOne(conn, store', "users", [_id |-> last'.value.doc._id], FALSE)
                            = Ok(store', DocValue(last'.value.doc), <<"findOne">>)

C21_SingletonUntilReset ==
    [][/\ last'.op = "getInstance"
            => LET o == last'.value.ref IN
               /\ registry'.instance = o
               /\ \A i \in DOMAIN registry.objects :
                    registry'.objects[i] = registry.objects[i]
               /\ IF registry.instance = NoInstance
                  THEN /\ o \notin DOMAIN registry.objects
                       /\ ~isConnected(registry'.objects[o])
                       /\ registry'.objects[o].client = NoClient
                       /\ getDB(registry'.objects[o]).status = "raised"
                  ELSE o = registry.instance
               /\ last.op = "getInstance" => o = last.value.ref
               /\ last.op = "resetMongoConnector" => o \notin DOMAIN registry.objects
       /\ last'.op = "resetMongoConnector"
            => registry'.objects = registry.objects /\ registry'.instance = NoInstance
       /\ registry'.instance # registry.instance
            => last'.op \in {"getInstance", "resetMongoConnector"}]_vars

C21_Witness ==
    /\ last.op = "getInstance"
    /\ last.value.ref = 3
    /\ registry.instance = 3
    /\ isConnected(registry.objects[1])
    /\ getDB(registry.objects[1]).value.name = "custom-db"
    /\ registry.objects[3] = NewConnector

\* C22: connect, close and setDB called on one instance leave isConnected(),
\* the client handle and the selected database of every other instance, the
\* singleton or a test connector, unchanged, and do not touch its client.
C22_InstancesShareNoState ==
    [][last'.op \in {"connect", "close", "setDB"}
        => \A o \in DOMAIN registry.objects \ {last'.on} :
            /\ isConnected(registry'.objects[o]) = isConnected(registry.objects[o])
            /\ registry'.objects[o].client = registry.objects[o].client
            /\ registry'.objects[o].db = registry.objects[o].db
            /\ registry.objects[o].client # NoClient
                => clients'[registry.objects[o].client] = clients[registry.objects[o].client]]_vars

C22_Witness ==
    /\ last.op = "close"
    /\ last.entry
    /\ last.on = 1
    /\ Len(registry.objects) = 2
    /\ registry.instance = 1
    /\ isConnected(registry.objects[2])
    /\ getDB(registry.objects[2]).value.name = "test-db"

\* C23: for every interleaving of overlapping connect() and close() calls on
\* one connector, once all calls have completed at most one client opened by
\* the connector remains unclosed, and it is the connector's current client.
C23_OverlappingCallsLeakNoClient ==
    InFlight = {}
        => /\ Cardinality({i \in DOMAIN clients : clients[i] = "open"}) <= 1
           /\ \A i \in DOMAIN clients : clients[i] = "open" => conn.client = i

\* C24: for every interleaving of connect() and close() calls with CRUD calls,
\* a CRUD call sends a request to the store only if isConnected() was true
\* when the call was entered.  A request is sent when the call reaches the
\* driver on a database handle whose client is open.
C24_RequestOnlyIfConnectedAtEntry ==
    [][(/\ last' # last
        /\ last'.op \in CrudOps
        /\ last'.io # <<>>
        /\ clients[conn.db.client] = "open")
        => isConnected(conn)]_vars

\* C25: at the moment a connect(uri, dbName?) call completes without raising,
\* whatever calls overlap it, isConnected() is true, the client handle is the
\* client this call connected, and getDB() returns the database of that name
\* when a dbName was given.
C25_CompletedConnectIsConnected ==
    [][\A t \in DOMAIN tasks :
        (/\ tasks[t].op = "connect"
         /\ tasks[t].pc # "done"
         /\ tasks'[t].pc = "done"
         /\ tasks'[t].status = "returned")
            => /\ isConnected(conn')
               /\ conn'.client = tasks[t].cl
               /\ tasks[t].dbName # NoDbName
                    => /\ getDB(conn').status = "returned"
                       /\ getDB(conn').value.name = tasks[t].dbName
                       /\ getDB(conn').value.client = tasks[t].cl]_vars

\* C26: when the store rejects some but not all documents of a createMany
\* call, failed holds exactly the input documents at the indexes of the
\* store's write errors, each with an error, inserted holds exactly the other
\* input documents, each with the identifier the store assigned at its index,
\* both in input order, and the collection afterwards holds its previous
\* documents followed by the inserted ones.
C26_PartialFailureSplitsInput ==
    [][(/\ last'.op = "createMany"
        /\ last'.io = <<"insertMany">>
        /\ ~last'.args.fail)
        => LET documents == last'.args.documents
               r == insertMany(collOf(store, conn), nsOf(conn, "users"), documents,
                               store.ids, last'.args.rejected)
               failedIndexes == {r.writeErrors[i].index : i \in 1..Len(r.writeErrors)}
               failedAt == SelectSeq(Positions(Len(documents)),
                                     LAMBDA i : i \in failedIndexes)
               insertedAt == SelectSeq(Positions(Len(documents)),
                                       LAMBDA i : i \notin failedIndexes)
           IN  (failedIndexes # {} /\ failedIndexes # 1..Len(documents))
                => /\ last'.status = "returned"
                   /\ Len(last'.value.failed) = Len(failedAt)
                   /\ \A k \in 1..Len(failedAt) :
                        /\ last'.value.failed[k].document = documents[failedAt[k]]
                        /\ last'.value.failed[k].error # NoError
                   /\ Len(last'.value.inserted) = Len(insertedAt)
                   /\ \A k \in 1..Len(insertedAt) :
                        last'.value.inserted[k].doc
                            = withId(documents[insertedAt[k]], r.insertedIds[insertedAt[k]])
                   /\ SelectedDocs(store')
                        = SelectedDocs(store)
                            \o [k \in 1..Len(insertedAt) |-> last'.value.inserted[k].doc]]_vars

\* C27: for a document rejected by a unique index, the DuplicateKeyError that
\* createMany places in failed carries the field name and the value that the
\* DuplicateKeyError of createOne carries for the same document.
C27_BulkDuplicateNamesTheField ==
    (last.op = "createMany" /\ last.status = "returned")
        => \A k \in 1..Len(last.value.failed) :
                LET single == createOne(conn, store, "users",
                                        last.value.failed[k].document, "ok")
                IN  (single.status = "raised" /\ single.error.kind = "DuplicateKeyError")
                        => /\ last.value.failed[k].error.kind = "DuplicateKeyError"
                           /\ last.value.failed[k].error.field = single.error.field
                           /\ last.value.failed[k].error.value = single.error.value

\* C29: whenever createMany raises an error instead of returning a result,
\* whatever the store answered to the unordered insert, none of the input
\* documents has been written to the collection.
C29_RaisingCreateManyWritesNothing ==
    [][(last'.op = "createMany" /\ last'.status = "raised")
        => SelectedDocs(store') = SelectedDocs(store)]_vars

\* C28: with an attempt budget of at least one and every connection attempt,
\* client close and sleep settling, each connect() call eventually completes,
\* returning with the connector connected or raising, after at most
\* maxAttempts connection attempts and at most maxAttempts - 1 sleeps.
C28_ConnectTerminatesWithinBudget ==
    /\ [](\A t \in DOMAIN tasks :
            (tasks[t].op = "connect" /\ tasks[t].maxAttempts >= 1)
                => /\ tasks[t].attempt <= tasks[t].maxAttempts
                   /\ tasks[t].sleeps <= tasks[t].maxAttempts - 1
                   /\ tasks[t].sleeps <= tasks[t].attempt
                   /\ tasks[t].pc = "done" => tasks[t].status \in {"returned", "raised"})
    /\ [][\A t \in DOMAIN tasks :
            (/\ tasks[t].op = "connect" /\ tasks[t].maxAttempts >= 1
             /\ tasks[t].pc # "done" /\ tasks'[t].pc = "done"
             /\ tasks'[t].status = "returned")
                => isConnected(conn')]_vars
    /\ \A t \in 1..MaxCalls :
            (t \in DOMAIN tasks /\ tasks[t].op = "connect" /\ tasks[t].maxAttempts >= 1)
                ~> (t \in DOMAIN tasks /\ tasks[t].pc = "done")

C28_Witness ==
    \E t \in DOMAIN tasks :
        /\ tasks[t].op = "connect"
        /\ tasks[t].pc = "done"
        /\ tasks[t].status = "raised"
        /\ tasks[t].maxAttempts = 2
        /\ tasks[t].attempt = 2
        /\ tasks[t].sleeps = 1
        /\ "closed" \in Range(clients)

\* C30: for every options value, maxAttempts of 0 or less included, withRetry
\* invokes the action at least once before raising, what it raises is an
\* error produced by the action, and connect raises only ConnectionError.
C30_RetryRaisesAnErrorOfTheAction ==
    last.op = "connect"
        => /\ last.value.status = "raised"
                => /\ Len(Calls(last.value)) >= 1
                   /\ last.value.error \in AttemptErrors
           /\ last.status = "raised" => last.error.kind = "ConnectionError"

====
